---- MODULE Spec2Model ----
(***************************************************************************)
(* Model of the transformation core of app.py: validate_isin,              *)
(* extract_portfolio_name, process_single_file and process_multiple_files. *)
(*                                                                         *)
(* Python str values are sequences of one-character strings.  A cell of a  *)
(* DataFrame (and a field of an output record) is a tagged value:          *)
(*   [tag |-> "Missing"]              NaN / None / NaT                     *)
(*   [tag |-> "Text",  chars |-> s]   a str                                *)
(*   [tag |-> "Int",   n |-> k]       an int                               *)
(*   [tag |-> "Float", n |-> k]       a float (integral values only)       *)
(*   [tag |-> "Date",  y, m, d]       a datetime / Timestamp at midnight   *)
(***************************************************************************)
EXTENDS Integers, Sequences, FiniteSets, TLC

VARIABLES
    pc,                 \* position of the running call
    isin_code,          \* validate_isin: argument
    isin_value,         \* validate_isin: returned str
    isin_again,         \* validate_isin applied to its own result
    filename,           \* extract_portfolio_name: argument
    portfolio_name,     \* extract_portfolio_name: returned str
    input_file,         \* process_single_file: argument
    df_output,          \* process_single_file: returned DataFrame or None
    uploaded_files,     \* process_multiple_files: argument
    i,                  \* process_multiple_files: loop index (0-based)
    all_outputs,        \* process_multiple_files: list of DataFrames
    processed_files,    \* process_multiple_files: counter
    failed_files,       \* process_multiple_files: list of names
    status_text,        \* what status_text.text() has shown, in order
    result,             \* process_multiple_files: returned tuple
    screen              \* the message boxes shown to the user, in order

isinVars == <<isin_code, isin_value, isin_again>>
nameVars == <<filename, portfolio_name>>
fileVars == <<input_file, df_output>>
aggVars  == <<uploaded_files, i, all_outputs, processed_files, failed_files,
              status_text, result, screen>>
vars == <<pc, isinVars, nameVars, fileVars, aggVars>>

----------------------------------------------------------------------------
(* Characters and the str methods the code uses                            *)

LowerSeq == <<"a","b","c","d","e","f","g","h","i","j","k","l","m",
              "n","o","p","q","r","s","t","u","v","w","x","y","z">>
UpperSeq == <<"A","B","C","D","E","F","G","H","I","J","K","L","M",
              "N","O","P","Q","R","S","T","U","V","W","X","Y","Z">>
DigitSeq == <<"0","1","2","3","4","5","6","7","8","9">>

Range(s) == {s[k] : k \in 1..Len(s)}

\* "ß" is a lowercase letter for str.isalpha() whose uppercase is "SS"
SharpS == "ß"

LowerLetters == Range(LowerSeq) \cup {SharpS}
UpperLetters == Range(UpperSeq)
Letters      == LowerLetters \cup UpperLetters
DigitChars   == Range(DigitSeq)
Whitespace   == {" "}

\* c.isalpha() and c.isalnum() of one character
CharIsAlpha(c) == c \in Letters
CharIsAlnum(c) == c \in Letters \cup DigitChars

\* str.isalpha() / str.isalnum(): false on the empty string
IsAlpha(s) == Len(s) > 0 /\ \A k \in 1..Len(s) : CharIsAlpha(s[k])
IsAlnum(s) == Len(s) > 0 /\ \A k \in 1..Len(s) : CharIsAlnum(s[k])

\* uppercase of one character, as a str (it can be longer than one)
UpperChar(c) ==
    IF c = SharpS THEN <<"S", "S">>
    ELSE IF c \in Range(LowerSeq)
         THEN <<UpperSeq[CHOOSE k \in 1..Len(LowerSeq) : LowerSeq[k] = c]>>
         ELSE <<c>>

RECURSIVE StrUpper(_)
StrUpper(s) == IF s = <<>> THEN <<>> ELSE UpperChar(Head(s)) \o StrUpper(Tail(s))

RECURSIVE LStrip(_)
LStrip(s) == IF s # <<>> /\ Head(s) \in Whitespace THEN LStrip(Tail(s)) ELSE s

RECURSIVE RStrip(_)
RStrip(s) ==
    IF s # <<>> /\ s[Len(s)] \in Whitespace
    THEN RStrip(SubSeq(s, 1, Len(s) - 1)) ELSE s

StrStrip(s) == RStrip(LStrip(s))

\* s[:n]
Prefix(s, n) == SubSeq(s, 1, IF Len(s) < n THEN Len(s) ELSE n)

----------------------------------------------------------------------------
(* Cell values                                                             *)

Missing     == [tag |-> "Missing"]
Text(s)     == [tag |-> "Text", chars |-> s]
IntCell(k)  == [tag |-> "Int", n |-> k]
Float(k)    == [tag |-> "Float", n |-> k]
Date(y,m,d) == [tag |-> "Date", y |-> y, m |-> m, d |-> d]
EmptyStr    == Text(<<>>)

\* pd.isna(v) / pd.notna(v) of a scalar
IsNa(v)  == v.tag = "Missing"
NotNa(v) == ~IsNa(v)

RECURSIVE NatToChars(_)
NatToChars(k) ==
    IF k < 10 THEN <<DigitSeq[k + 1]>>
    ELSE NatToChars(k \div 10) \o <<DigitSeq[(k % 10) + 1]>>

IntToChars(k) == IF k < 0 THEN <<"-">> \o NatToChars(-k) ELSE NatToChars(k)

\* k written with at least w digits, zero padded (%Y, %m, %d)
RECURSIVE ZeroPad(_, _)
ZeroPad(s, w) == IF Len(s) >= w THEN s ELSE ZeroPad(<<"0">> \o s, w)

\* date_value.strftime('%Y-%m-%d')
Strftime(v) ==
    ZeroPad(NatToChars(v.y), 4) \o <<"-">> \o ZeroPad(NatToChars(v.m), 2)
        \o <<"-">> \o ZeroPad(NatToChars(v.d), 2)

\* str(v) of a cell value
Str(v) ==
    CASE v.tag = "Text"    -> v.chars
      [] v.tag = "Int"     -> IntToChars(v.n)
      [] v.tag = "Float"   -> IntToChars(v.n) \o <<".", "0">>
      [] v.tag = "Date"    -> Strftime(v) \o <<" ","0","0",":","0","0",":","0","0">>
      [] v.tag = "Missing" -> <<"n","a","n">>

----------------------------------------------------------------------------
(* validate_isin                                                           *)

IsinLen   == 12
PrefixLen == 2

\* validate_isin without the test of the two-letter prefix
validate_isin_any_prefix(code) ==
    IF IsNa(code) THEN <<>>
    ELSE LET isin_str == StrStrip(Str(code))
         IN  IF Len(isin_str) = IsinLen /\ IsAlnum(isin_str)
             THEN StrUpper(isin_str)
             ELSE <<>>

validate_isin(code) ==
    IF IsNa(code) THEN <<>>
    ELSE LET isin_str == StrStrip(Str(code))
         IN  IF Len(isin_str) = IsinLen /\ IsAlnum(isin_str)
                  /\ IsAlpha(Prefix(isin_str, PrefixLen))
             THEN StrUpper(isin_str)
             ELSE <<>>

----------------------------------------------------------------------------
(* Inputs of validate_isin: a two-character prefix, a tail of 9 to 11      *)
(* characters, and up to MaxPad blanks on either side                      *)

MaxPad == 1

IsinBody == <<"0","3","7","8","3","3","1","0","0","5">>

IsinPrefixChars == {"U", "s", SharpS, "1", "-", " "}

IsinPrefixes == {<<a, b>> : a \in IsinPrefixChars, b \in IsinPrefixChars}

\* s with its k-th character replaced by c
Replace(s, k, c) == [s EXCEPT ![k] = c]

IsinTails ==
    {IsinBody, SubSeq(IsinBody, 1, Len(IsinBody) - 1), IsinBody \o <<"x">>}
        \cup {Replace(IsinBody, 5, c) : c \in {"-", " ", "z", SharpS}}

Blanks(k) == [j \in 1..k |-> " "]

IsinTexts ==
    {Blanks(l) \o p \o t \o Blanks(r) :
        l \in 0..MaxPad, r \in 0..MaxPad, p \in IsinPrefixes, t \in IsinTails}

IsinCells ==
    {Text(s) : s \in IsinTexts}
        \cup {Missing, IntCell(378331005), Float(5), Date(2024, 1, 5)}

NoCell == Missing
NoFile == [name |-> <<>>, readable |-> FALSE, columns |-> {}, rows |-> <<>>]
None   == [isNone |-> TRUE, rows |-> <<>>]
NoResult == [combined_df |-> None, processed_files |-> 0, failed_files |-> <<>>]

IsinIdle == isin_code = NoCell /\ isin_value = <<>> /\ isin_again = <<>>
NameIdle == filename = <<>> /\ portfolio_name = <<>>
FileIdle == input_file = NoFile /\ df_output = None
AggIdle  == /\ uploaded_files = <<>> /\ i = 0 /\ all_outputs = <<>>
            /\ processed_files = 0 /\ failed_files = <<>>
            /\ status_text = <<>> /\ result = NoResult /\ screen = <<>>

InitIsin ==
    /\ pc = "isin_call"
    /\ isin_code \in IsinCells
    /\ isin_value = <<>> /\ isin_again = <<>>
    /\ NameIdle /\ FileIdle /\ AggIdle

\* isin_value = validate_isin(isin_code)
ValidateIsin ==
    /\ pc = "isin_call"
    /\ isin_value' = validate_isin(isin_code)
    /\ pc' = "isin_returned"
    /\ UNCHANGED <<isin_code, isin_again, nameVars, fileVars, aggVars>>

\* the validator applied to the str it returned
RevalidateIsin ==
    /\ pc = "isin_returned"
    /\ isin_again' = validate_isin(Text(isin_value))
    /\ pc' = "isin_done"
    /\ UNCHANGED <<isin_code, isin_value, nameVars, fileVars, aggVars>>

NextIsin == ValidateIsin \/ RevalidateIsin

SpecIsin == InitIsin /\ [][NextIsin]_vars

\* the three conditions of the validator, on a str
HasNonAlnum(s)   == \E k \in 1..Len(s) : ~CharIsAlnum(s[k])
PrefixLetters(s) == Len(s) >= PrefixLen /\ \A k \in 1..PrefixLen : CharIsAlpha(s[k])
IsinRejected(s)  == Len(s) # IsinLen \/ HasNonAlnum(s) \/ ~PrefixLetters(s)

IsinReturned == pc \in {"isin_returned", "isin_done"}

\* C4 (as stated): a raw str of length other than 12, or with a character
\* that is not alphanumeric (a blank included), or whose first two characters
\* are not both letters, is answered by the empty str.
C4_RawRejected ==
    (IsinReturned /\ isin_code.tag = "Text" /\ IsinRejected(isin_code.chars))
        => isin_value = <<>>

\* C4 (amended): the three conditions are taken on the str after its leading
\* and trailing whitespace is removed; such a str is answered by the empty str.
C4_StrippedRejected ==
    (IsinReturned /\ isin_code.tag = "Text"
        /\ IsinRejected(StrStrip(isin_code.chars)))
        => isin_value = <<>>

\* a rejected str that has exactly 12 alphanumeric characters but no
\* two-letter prefix, and one that is padded with blanks
C4_Witness ==
    /\ IsinReturned /\ isin_code.tag = "Text"
    /\ Len(isin_code.chars) = IsinLen + 1
    /\ Len(StrStrip(isin_code.chars)) = IsinLen
    /\ ~HasNonAlnum(StrStrip(isin_code.chars))
    /\ ~PrefixLetters(StrStrip(isin_code.chars))
    /\ isin_value = <<>>

\* C5: a str of 12 alphanumeric characters that starts with two letters is
\* answered by its uppercase form, and validating that answer again gives
\* the same answer.
C5_UpperIdempotent ==
    (pc = "isin_done" /\ isin_code.tag = "Text"
        /\ ~IsinRejected(isin_code.chars))
        => (isin_value = StrUpper(isin_code.chars) /\ isin_again = isin_value)

----------------------------------------------------------------------------
(* extract_portfolio_name                                                  *)

NameLen == 10

DefaultName == <<"P","o","r","t","f","o","l","i","o">>

\* s.split(sep)[-1]: what follows the last sep of s, or s when it has none
RECURSIVE LastPart(_, _)
LastPart(s, sep) ==
    IF \E k \in 1..Len(s) : s[k] = sep
    THEN LastPart(Tail(s), sep)
    ELSE s

\* extract_portfolio_name that strips only the "/" directories
extract_portfolio_name_slash_only(name) ==
    LET clean_name   == LastPart(name, "/")
        alphanumeric == SelectSeq(clean_name, CharIsAlnum)
    IN  IF alphanumeric # <<>> THEN Prefix(alphanumeric, NameLen) ELSE DefaultName

\* extract_portfolio_name with the slice one character too long
extract_portfolio_name_off_by_one(name) ==
    LET clean_name   == LastPart(LastPart(name, "/"), "\\")
        alphanumeric == SelectSeq(clean_name, CharIsAlnum)
    IN  IF alphanumeric # <<>> THEN Prefix(alphanumeric, NameLen + 1) ELSE DefaultName

extract_portfolio_name(name) ==
    LET clean_name   == LastPart(LastPart(name, "/"), "\\")
        alphanumeric == SelectSeq(clean_name, CharIsAlnum)
    IN  IF alphanumeric # <<>> THEN Prefix(alphanumeric, NameLen) ELSE DefaultName

(* Inputs: names made of up to MaxTokens pieces, and the name of the spec's *)
(* example                                                                  *)

MaxTokens == 4

NameTokens ==
    { <<"M","y">>, <<"_">>, DefaultName, <<"-">>, <<"2","0","2","4">>,
      <<".","x","l","s","x">>, <<"/">>, <<"\\">>, <<"#","#","#">>,
      <<"r","e","p","o","r","t">> }

RECURSIVE TokenNames(_)
TokenNames(k) ==
    IF k = 0 THEN {<<>>}
    ELSE LET shorter == TokenNames(k - 1)
         IN  shorter \cup {s \o t : s \in shorter, t \in NameTokens}

ExampleName ==
    <<"M","y","_","P","o","r","t","f","o","l","i","o","-","2","0","2","4",
      ".","x","l","s","x">>

Filenames == TokenNames(MaxTokens) \cup {ExampleName}

InitName ==
    /\ pc = "name_call"
    /\ filename \in Filenames
    /\ portfolio_name = <<>>
    /\ IsinIdle /\ FileIdle /\ AggIdle

\* portfolio_name = extract_portfolio_name(filename)
ExtractPortfolioName ==
    /\ pc = "name_call"
    /\ portfolio_name' = extract_portfolio_name(filename)
    /\ pc' = "name_returned"
    /\ UNCHANGED <<filename, isinVars, fileVars, aggVars>>

NextName == ExtractPortfolioName

SpecName == InitName /\ [][NextName]_vars

PathSeparators == {"/", "\\"}

\* the name without its directory path: its longest suffix free of separators
Basename(s) ==
    LET starts == {k \in 1..(Len(s) + 1) :
                      \A j \in k..Len(s) : s[j] \notin PathSeparators}
        first  == CHOOSE k \in starts : \A j \in starts : k <= j
    IN  SubSeq(s, first, Len(s))

AlnumOf(s) == SelectSeq(s, CharIsAlnum)

\* the parts of C6 that do not depend on when the default is returned
NameShape ==
    LET al == AlnumOf(Basename(filename))
    IN  /\ al # <<>> => portfolio_name = Prefix(al, NameLen)
        /\ portfolio_name # <<>>
        /\ Len(portfolio_name) <= NameLen
        /\ \A k \in 1..Len(portfolio_name) : CharIsAlnum(portfolio_name[k])

\* C6 (as stated): the result is the first 10 alphanumeric characters of the
\* name without its path, it is non-empty, alphanumeric and at most 10 long,
\* and it is "Portfolio" exactly when that name has no alphanumeric character.
C6_DefaultIffNoAlnum ==
    pc = "name_returned" =>
        /\ NameShape
        /\ (portfolio_name = DefaultName) <=> (AlnumOf(Basename(filename)) = <<>>)

\* C6 (amended): as above, but the result is "Portfolio" exactly when the name
\* without its path has no alphanumeric character or its alphanumeric
\* characters spell "Portfolio".
C6_DefaultIffNoAlnumOrSpelled ==
    pc = "name_returned" =>
        /\ NameShape
        /\ (portfolio_name = DefaultName)
              <=> (AlnumOf(Basename(filename)) \in {<<>>, DefaultName})

\* a name under both kinds of directory separator with more than 10
\* alphanumeric characters; and the default taken for a name without any
C6_Witness ==
    /\ pc = "name_returned"
    /\ \E k \in 1..Len(filename) : filename[k] = "\\"
    /\ AlnumOf(filename) # AlnumOf(Basename(filename))
    /\ Len(AlnumOf(Basename(filename))) > NameLen
    /\ Len(portfolio_name) = NameLen

C6_WitnessDefault ==
    /\ pc = "name_returned"
    /\ filename # <<>>
    /\ AlnumOf(Basename(filename)) = <<>>
    /\ portfolio_name = DefaultName

\* C7 (as stated): "My_Portfolio-2024.xlsx" gives "MyPortfolio".
C7_ExampleMyPortfolio ==
    (pc = "name_returned" /\ filename = ExampleName)
        => portfolio_name = <<"M","y","P","o","r","t","f","o","l","i","o">>

\* C7 (amended): "My_Portfolio-2024.xlsx" gives "MyPortfoli", the first 10
\* alphanumeric characters of the name.
C7_ExampleMyPortfoli ==
    (pc = "name_returned" /\ filename = ExampleName)
        => portfolio_name = <<"M","y","P","o","r","t","f","o","l","i">>

C7_Witness == pc = "name_returned" /\ filename = ExampleName

----------------------------------------------------------------------------
(* The conversions process_single_file applies to the cells of a row       *)

DigitVal(c) == (CHOOSE k \in 1..Len(DigitSeq) : DigitSeq[k] = c) - 1

IsDigits(s) == Len(s) > 0 /\ \A k \in 1..Len(s) : s[k] \in DigitChars

RECURSIVE CharsToNat(_)
CharsToNat(s) ==
    IF s = <<>> THEN 0
    ELSE 10 * CharsToNat(SubSeq(s, 1, Len(s) - 1)) + DigitVal(s[Len(s)])

\* float(s) of a str: blanks around it are ignored, a sign may lead.  Only
\* whole decimal numerals are modelled as convertible.
Unsigned(s) == IF s # <<>> /\ Head(s) \in {"-", "+"} THEN Tail(s) ELSE s

StrFloatOk(s) == IsDigits(Unsigned(StrStrip(s)))

StrFloatOf(s) ==
    LET t == StrStrip(s)
    IN  IF Head(t) = "-" THEN 0 - CharsToNat(Unsigned(t)) ELSE CharsToNat(Unsigned(t))

\* whether float(v) returns, and what it returns; float() of a datetime
\* raises TypeError, of an unconvertible str ValueError
FloatOk(v) ==
    CASE v.tag \in {"Int", "Float"} -> TRUE
      [] v.tag = "Text"             -> StrFloatOk(v.chars)
      [] OTHER                      -> FALSE

FloatOf(v) == IF v.tag = "Text" THEN Float(StrFloatOf(v.chars)) ELSE Float(v.n)

IsLeap(y) == (y % 4 = 0 /\ y % 100 # 0) \/ y % 400 = 0

DaysInMonth(y, m) ==
    IF m = 2 THEN (IF IsLeap(y) THEN 29 ELSE 28)
    ELSE IF m \in {4, 6, 9, 11} THEN 30 ELSE 31

\* the shape YYYY-MM-DD
IsIsoShape(s) ==
    /\ Len(s) = 10
    /\ s[5] = "-" /\ s[8] = "-"
    /\ \A k \in {1, 2, 3, 4, 6, 7, 9, 10} : s[k] \in DigitChars

\* pd.to_datetime(s, errors='coerce') of a str: a Timestamp for a text in
\* the form YYYY-MM-DD that names a calendar day, NaT for text that is no date
to_datetime(s) ==
    IF IsIsoShape(s)
    THEN LET y == CharsToNat(SubSeq(s, 1, 4))
             m == CharsToNat(SubSeq(s, 6, 7))
             d == CharsToNat(SubSeq(s, 9, 10))
         IN  IF m \in 1..12 /\ d \in 1..DaysInMonth(y, m)
             THEN Date(y, m, d) ELSE Missing
    ELSE Missing

\* the numeric coercion with the empty str for a cell that does not convert
CoerceNumeric_blank(raw) ==
    IF NotNa(raw)
    THEN IF FloatOk(raw) THEN FloatOf(raw) ELSE EmptyStr
    ELSE raw

\* lines 228-233 and 235-240: the quantity and cost price cells
CoerceNumeric(raw) ==
    IF NotNa(raw)
    THEN IF FloatOk(raw) THEN FloatOf(raw) ELSE raw
    ELSE raw

\* the date normalizer that keeps a text it cannot parse
NormalizeDate_keep_text(raw) ==
    IF NotNa(raw)
    THEN LET date_value == IF raw.tag = "Text" THEN to_datetime(raw.chars) ELSE raw
         IN  IF IsNa(date_value) THEN raw
             ELSE IF date_value.tag = "Date" THEN Text(Strftime(date_value))
             ELSE Text(Str(date_value))
    ELSE EmptyStr

\* lines 242-254: the date cell.  Only a datetime has strftime; on any other
\* value the attribute lookup raises and the except branch takes str()
NormalizeDate(raw) ==
    IF NotNa(raw)
    THEN LET date_value == IF raw.tag = "Text" THEN to_datetime(raw.chars) ELSE raw
         IN  IF IsNa(date_value) THEN EmptyStr
             ELSE IF date_value.tag = "Date" THEN Text(Strftime(date_value))
             ELSE Text(Str(date_value))
    ELSE EmptyStr

ColIsin  == "ISIN Code"
ColQty   == "Quantity / Notional"
ColPrice == "Cost Price (Ref. Cur)"
ColDate  == "Reporting Current Rate Date"

required_columns == <<ColIsin, ColQty, ColPrice, ColDate>>

OutputColumns ==
    <<"Portfolio Name", "Security", "Sedol", "Cusip", "ISIN", "Security Name",
      "Position", "Weight", "Mkt Px", "Cost Price", "As of Date",
      "New Classification">>

\* lines 225-269: the output record of one row
output_row(row, name) ==
    LET isin_val   == validate_isin(row[ColIsin])
        quantity   == CoerceNumeric(row[ColQty])
        cost_price == CoerceNumeric(row[ColPrice])
        date_value == NormalizeDate(row[ColDate])
    IN  [c \in Range(OutputColumns) |->
            CASE c = "Portfolio Name" -> Text(name)
              [] c = "ISIN"           -> Text(isin_val)
              [] c = "Position"       -> quantity
              [] c = "Cost Price"     -> cost_price
              [] c = "As of Date"     -> date_value
              [] OTHER                -> EmptyStr]

\* the row loop that skips a row whose identifier is not valid
RECURSIVE output_data_valid_only(_, _)
output_data_valid_only(rows, name) ==
    IF rows = <<>> THEN <<>>
    ELSE output_data_valid_only(SubSeq(rows, 1, Len(rows) - 1), name)
            \o (IF validate_isin(rows[Len(rows)][ColIsin]) = <<>> THEN <<>>
                ELSE <<output_row(rows[Len(rows)], name)>>)

\* lines 222-271: the loop over df_input.iterrows()
RECURSIVE output_data(_, _)
output_data(rows, name) ==
    IF rows = <<>> THEN <<>>
    ELSE output_data(SubSeq(rows, 1, Len(rows) - 1), name)
            \o <<output_row(rows[Len(rows)], name)>>

DataFrame(rows) == [isNone |-> FALSE, rows |-> rows]

\* process_single_file that returns an empty DataFrame for a table without rows
process_single_file_keep_empty(file, name) ==
    IF ~file.readable THEN None
    ELSE LET missing_columns ==
                SelectSeq(required_columns, LAMBDA col : col \notin file.columns)
         IN  IF missing_columns # <<>> THEN None
             ELSE DataFrame(output_data(file.rows, name))

process_single_file(file, name) ==
    IF ~file.readable THEN None
    ELSE LET missing_columns ==
                SelectSeq(required_columns, LAMBDA col : col \notin file.columns)
         IN  IF missing_columns # <<>> THEN None
             ELSE LET out == output_data(file.rows, name)
                  IN  IF out # <<>> THEN DataFrame(out) ELSE None

----------------------------------------------------------------------------
(* Input tables of process_single_file.  The k-th row of a table takes, in  *)
(* each column, the cell that follows the cell of row k-1 in the column's   *)
(* list of cells, so the rows of one table differ from each other and every *)
(* cell of a list occurs in every row position.                             *)

MaxRows == 2

Chars_US   == <<"U","S","0","3","7","8","3","3","1","0","0","5">>
Chars_us   == <<" ","u","s","0","3","7","8","3","3","1","0","0","5"," ">>
Chars_12   == <<"1","2">>
Chars_m3   == <<" ","-","3"," ">>
Chars_abc  == <<"a","b","c">>
Chars_1a   == <<"1","a">>
Chars_day  == <<"2","0","2","4","-","0","2","-","2","9">>
Chars_eve  == <<"2","0","2","3","-","1","2","-","3","1">>
Chars_bad  == <<"2","0","2","3","-","0","2","-","2","9">>
Chars_usd  == <<"U","S","D">>

IsinColumnCells ==
    <<Text(Chars_US), Text(Chars_us), Text(Chars_abc), Missing, IntCell(5)>>

NumericCells ==
    <<IntCell(100), Text(Chars_abc), Missing, Text(Chars_12), Float(7),
      Text(Chars_m3), Date(2024, 1, 5), Text(Chars_1a)>>

DateCells ==
    <<Date(2024, 1, 5), Text(Chars_day), Missing, Text(Chars_abc),
      IntCell(45000), Text(Chars_bad), Float(45000), Text(Chars_eve)>>

ColOther == "Currency"

\* the k-th cell of a list, counted cyclically from 1
Cyclic(cells, k) == cells[((k - 1) % Len(cells)) + 1]

CellAt(col, seed, k) ==
    CASE col = ColIsin  -> Cyclic(IsinColumnCells, seed[1] + k - 1)
      [] col = ColQty   -> Cyclic(NumericCells, seed[2] + k - 1)
      [] col = ColPrice -> Cyclic(NumericCells, seed[3] + k - 1)
      [] col = ColDate  -> Cyclic(DateCells, seed[4] + k - 1)
      [] OTHER          -> Text(Chars_usd)

Seeds ==
    (1..Len(IsinColumnCells)) \X (1..Len(NumericCells))
        \X (1..Len(NumericCells)) \X (1..Len(DateCells))

AllColumns == Range(required_columns)

ColumnSets ==
    {AllColumns, AllColumns \cup {ColOther}}
        \cup {(AllColumns \ {c}) \cup {ColOther} : c \in AllColumns}

Table(name, cols, seed, n) ==
    [name     |-> name,
     readable |-> TRUE,
     columns  |-> cols,
     rows     |-> [k \in 1..n |-> [c \in cols |-> CellAt(c, seed, k)]]]

Unreadable(name) == [name |-> name, readable |-> FALSE, columns |-> {}, rows |-> <<>>]

FileName == <<"M","y",".","x","l","s","x">>

InputFiles ==
    {Table(FileName, cols, seed, n) :
        cols \in ColumnSets, seed \in Seeds, n \in 0..MaxRows}
        \cup {Unreadable(FileName)}

InitFile ==
    /\ pc = "file_call"
    /\ input_file \in InputFiles
    /\ filename = input_file.name
    /\ portfolio_name = extract_portfolio_name(input_file.name)
    /\ df_output = None
    /\ IsinIdle /\ AggIdle

\* df_output = process_single_file(uploaded_file, portfolio_name)
ProcessSingleFile ==
    /\ pc = "file_call"
    /\ df_output' = process_single_file(input_file, portfolio_name)
    /\ pc' = "file_returned"
    /\ UNCHANGED <<input_file, isinVars, nameVars, aggVars>>

NextFile == ProcessSingleFile

SpecFile == InitFile /\ [][NextFile]_vars

\* the table passed the column check
PassesColumnCheck(file) == file.readable /\ AllColumns \subseteq file.columns

FileReturned == pc = "file_returned"

\* the rows that were mapped: every row of the table once a table is returned
Mapped == IF df_output.isNone THEN {} ELSE 1..Len(input_file.rows)

\* C2: a null quantity (cost price) cell gives the empty str in the Position
\* (Cost Price) field of the row's record.
C2_NullGivesEmptyStr ==
    (FileReturned /\ PassesColumnCheck(input_file)) =>
        \A k \in Mapped :
            /\ IsNa(input_file.rows[k][ColQty])
                  => df_output.rows[k]["Position"] = EmptyStr
            /\ IsNa(input_file.rows[k][ColPrice])
                  => df_output.rows[k]["Cost Price"] = EmptyStr

\* C8: a table that passes the column check yields one record of the 12
\* output fields per row, the k-th record made from the k-th row, whatever
\* the row's cells are; with at least one row the file does not fail.
C8_OneRecordPerRow ==
    (FileReturned /\ PassesColumnCheck(input_file)) =>
        /\ Len(df_output.rows) = Len(input_file.rows)
        /\ Len(input_file.rows) > 0 => ~df_output.isNone
        /\ \A k \in 1..Len(input_file.rows) :
              /\ DOMAIN df_output.rows[k] = Range(OutputColumns)
              /\ Cardinality(DOMAIN df_output.rows[k]) = 12
              /\ df_output.rows[k]["Portfolio Name"] = Text(portfolio_name)
              /\ df_output.rows[k]["ISIN"]
                    = Text(validate_isin(input_file.rows[k][ColIsin]))
              /\ df_output.rows[k] = output_row(input_file.rows[k], portfolio_name)

\* two rows, the first with an invalid identifier and an unconvertible
\* quantity, price and date, all mapped
C8_Witness ==
    /\ FileReturned /\ PassesColumnCheck(input_file)
    /\ Len(input_file.rows) >= 2 /\ Len(df_output.rows) = Len(input_file.rows)
    /\ validate_isin(input_file.rows[1][ColIsin]) = <<>>
    /\ input_file.rows[1][ColQty] = Text(Chars_abc)
    /\ input_file.rows[1][ColPrice] = Text(Chars_1a)
    /\ input_file.rows[1][ColDate] = Text(Chars_bad)

IsIsoOrEmpty(v) == v.tag = "Text" /\ (v.chars = <<>> \/ IsIsoShape(v.chars))

\* C9 (as stated): whatever the date cell holds, the As of Date field is a
\* str of the form YYYY-MM-DD or the empty str.
C9_IsoOrEmpty ==
    (FileReturned /\ PassesColumnCheck(input_file)) =>
        \A k \in Mapped : IsIsoOrEmpty(df_output.rows[k]["As of Date"])

\* C9 (amended): for a missing, text or datetime cell the As of Date field is
\* a str of the form YYYY-MM-DD or the empty str; for a cell of any other
\* type (a number) it is str() of the cell.
C9_IsoOrEmptyOrStr ==
    (FileReturned /\ PassesColumnCheck(input_file)) =>
        \A k \in Mapped :
            LET raw == input_file.rows[k][ColDate]
                out == df_output.rows[k]["As of Date"]
            IN  IF raw.tag \in {"Missing", "Text", "Date"}
                THEN IsIsoOrEmpty(out)
                ELSE out = Text(Str(raw))

\* rows with a datetime, a text date, a text that is no date and a number
C9_Witness ==
    /\ FileReturned /\ PassesColumnCheck(input_file)
    /\ Len(df_output.rows) = 2
    /\ input_file.rows[1][ColDate] = Text(Chars_abc)
    /\ input_file.rows[2][ColDate] = IntCell(45000)
    /\ df_output.rows[1]["As of Date"] = EmptyStr
    /\ df_output.rows[2]["As of Date"] = Text(<<"4","5","0","0","0">>)

C9_WitnessDate ==
    /\ FileReturned /\ PassesColumnCheck(input_file)
    /\ Len(df_output.rows) = 2
    /\ input_file.rows[1][ColDate].tag = "Date"
    /\ input_file.rows[2][ColDate] = Text(Chars_day)
    /\ df_output.rows[1]["As of Date"] = Text(<<"2","0","2","4","-","0","1","-","0","5">>)
    /\ df_output.rows[2]["As of Date"] = Text(Chars_day)

\* a str that float() converts: a whole numeral, a sign before it and blanks
\* around it allowed
IsNumeral(s) ==
    \E a \in 1..Len(s), b \in 1..Len(s) :
        /\ a <= b
        /\ \A k \in 1..Len(s) : (k < a \/ k > b) => s[k] \in Whitespace
        /\ \A k \in a..b : s[k] \in DigitChars \/ (k = a /\ a < b /\ s[k] \in {"-", "+"})

Convertible(raw) ==
    raw.tag \in {"Int", "Float"} \/ (raw.tag = "Text" /\ IsNumeral(raw.chars))

\* the float a convertible cell stands for: the number itself, or the float
\* whose decimal form is the text without its blanks
IsFloatOf(out, raw) ==
    /\ out.tag = "Float"
    /\ raw.tag \in {"Int", "Float"} => out.n = raw.n
    /\ raw.tag = "Text" => IntToChars(out.n) = StrStrip(raw.chars)

Coerced(out, raw) ==
    NotNa(raw) => IF Convertible(raw) THEN IsFloatOf(out, raw) ELSE out = raw

\* C10: a quantity (cost price) cell that is present but not convertible to
\* a float is passed to the Position (Cost Price) field unchanged, and a
\* convertible one gives the converted float.
C10_PassThroughOrFloat ==
    (FileReturned /\ PassesColumnCheck(input_file)) =>
        \A k \in Mapped :
            /\ Coerced(df_output.rows[k]["Position"], input_file.rows[k][ColQty])
            /\ Coerced(df_output.rows[k]["Cost Price"], input_file.rows[k][ColPrice])

\* a text that is no number passed through, a text numeral and an int
\* converted
C10_Witness ==
    /\ FileReturned /\ PassesColumnCheck(input_file)
    /\ Len(df_output.rows) = 2
    /\ input_file.rows[1][ColQty] = Text(Chars_abc)
    /\ df_output.rows[1]["Position"] = Text(Chars_abc)
    /\ input_file.rows[1][ColPrice] = Text(Chars_m3)
    /\ df_output.rows[1]["Cost Price"] = Float(0 - 3)
    /\ input_file.rows[2][ColPrice] = Date(2024, 1, 5)
    /\ df_output.rows[2]["Cost Price"] = Date(2024, 1, 5)

----------------------------------------------------------------------------
(* process_multiple_files                                                  *)

MaxFiles == 3

Name_fund    == <<"f","u","n","d",".","x","l","s","x">>
Name_reportA == <<"r","e","p","o","r","t","_","2","0","2","4","_","A",".","x","l","s">>
Name_reportB == <<"r","e","p","o","r","t","_","2","0","2","4","_","B",".","x","l","s">>
Name_empty   == <<"e","m","p","t","y",".","x","l","s","x">>
Name_nocol   == <<"#","1",".","x","l","s">>
Name_broken  == <<"b","r","o","k","e","n",".","x","l","s","x">>

\* the files a user can upload: three tables that map, a table without data
\* rows, a table without the cost price column, and a file that cannot be read
UploadFiles ==
    { Table(Name_fund, AllColumns, <<1, 1, 2, 1>>, 2),
      Table(Name_reportA, AllColumns \cup {ColOther}, <<3, 2, 3, 4>>, 1),
      Table(Name_reportB, AllColumns, <<4, 5, 6, 5>>, 2),
      Table(Name_empty, AllColumns, <<1, 1, 1, 1>>, 0),
      Table(Name_nocol, (AllColumns \ {ColPrice}) \cup {ColOther}, <<2, 4, 1, 2>>, 2),
      Unreadable(Name_broken) }

RECURSIVE Uploads(_)
Uploads(n) ==
    IF n = 0 THEN {<<>>}
    ELSE LET shorter == Uploads(n - 1)
         IN  shorter \cup {Append(fs, f) : fs \in shorter, f \in UploadFiles}

\* a concatenation that puts the later frames first
RECURSIVE concat_reversed(_)
concat_reversed(frames) ==
    IF frames = <<>> THEN <<>>
    ELSE concat_reversed(Tail(frames)) \o Head(frames).rows

\* pd.concat(frames, ignore_index=True) of a list of DataFrames
RECURSIVE concat(_)
concat(frames) ==
    IF frames = <<>> THEN <<>>
    ELSE Head(frames).rows \o concat(Tail(frames))

\* main calls process_multiple_files only with a non-empty list of uploads
Init ==
    /\ pc = "loop"
    /\ uploaded_files \in Uploads(MaxFiles) \ {<<>>}
    /\ i = 0
    /\ all_outputs = <<>>
    /\ processed_files = 0
    /\ failed_files = <<>>
    /\ status_text = <<>>
    /\ result = NoResult
    /\ screen = <<>>
    /\ IsinIdle /\ NameIdle /\ FileIdle

\* the status text that counts the files from 0
ReportProgress_zero_based ==
    /\ pc = "loop"
    /\ i < Len(uploaded_files)
    /\ status_text' =
          Append(status_text, <<i, Len(uploaded_files), uploaded_files[i + 1].name>>)
    /\ pc' = "process"
    /\ UNCHANGED <<uploaded_files, i, all_outputs, processed_files, failed_files,
                   result, screen, isinVars, nameVars, fileVars>>

\* lines 288-290: the progress bar and the status text of the i-th file
ReportProgress ==
    /\ pc = "loop"
    /\ i < Len(uploaded_files)
    /\ status_text' =
          Append(status_text, <<i + 1, Len(uploaded_files), uploaded_files[i + 1].name>>)
    /\ pc' = "process"
    /\ UNCHANGED <<uploaded_files, i, all_outputs, processed_files, failed_files,
                   result, screen, isinVars, nameVars, fileVars>>

\* lines 209 and 219: what process_single_file shows for a file it rejects;
\* a table without data rows is rejected without a message
FileMessages(file) ==
    IF ~file.readable THEN <<<<"error_reading", file.name>>>>
    ELSE IF ~(AllColumns \subseteq file.columns)
         THEN <<<<"warning_missing_columns", file.name>>>>
         ELSE <<>>

\* the loop that ends at the first file that gives no output
ProcessFile_stop_on_failure ==
    /\ pc = "process"
    /\ LET uploaded_file == uploaded_files[i + 1]
           name          == extract_portfolio_name(uploaded_file.name)
           df            == process_single_file(uploaded_file, name)
       IN  /\ input_file' = uploaded_file
           /\ filename' = uploaded_file.name
           /\ portfolio_name' = name
           /\ df_output' = df
           /\ screen' = screen \o FileMessages(uploaded_file)
           /\ IF ~df.isNone
              THEN /\ all_outputs' = Append(all_outputs, df)
                   /\ processed_files' = processed_files + 1
                   /\ i' = i + 1
                   /\ UNCHANGED failed_files
              ELSE /\ failed_files' = Append(failed_files, uploaded_file.name)
                   /\ i' = Len(uploaded_files)
                   /\ UNCHANGED <<all_outputs, processed_files>>
    /\ pc' = "loop"
    /\ UNCHANGED <<uploaded_files, status_text, result, isinVars>>

\* lines 292-299: map the i-th file and record its outcome
ProcessFile ==
    /\ pc = "process"
    /\ LET uploaded_file == uploaded_files[i + 1]
           name          == extract_portfolio_name(uploaded_file.name)
           df            == process_single_file(uploaded_file, name)
       IN  /\ input_file' = uploaded_file
           /\ filename' = uploaded_file.name
           /\ portfolio_name' = name
           /\ df_output' = df
           /\ screen' = screen \o FileMessages(uploaded_file)
           /\ IF ~df.isNone
              THEN /\ all_outputs' = Append(all_outputs, df)
                   /\ processed_files' = processed_files + 1
                   /\ UNCHANGED failed_files
              ELSE /\ failed_files' = Append(failed_files, uploaded_file.name)
                   /\ UNCHANGED <<all_outputs, processed_files>>
    /\ i' = i + 1
    /\ pc' = "loop"
    /\ UNCHANGED <<uploaded_files, status_text, result, isinVars>>

\* lines 301-308: the loop is over; concatenate and return
Return ==
    /\ pc = "loop"
    /\ i = Len(uploaded_files)
    /\ result' =
          [combined_df     |-> IF all_outputs # <<>>
                               THEN DataFrame(concat(all_outputs)) ELSE None,
           processed_files |-> processed_files,
           failed_files    |-> failed_files]
    /\ pc' = "done"
    /\ UNCHANGED <<uploaded_files, i, all_outputs, processed_files, failed_files,
                   status_text, screen, isinVars, nameVars, fileVars>>

\* bool(result) of the returned tuple: a tuple of three items is true
Truthy(r) == Cardinality(DOMAIN r) > 0

Box(kind) == <<kind, <<>>>>

\* main that goes by the truth of the returned tuple alone
ShowOutcome_by_result ==
    /\ pc = "done"
    /\ IF Truthy(result)
       THEN /\ screen' = screen \o <<Box("success")>>
                   \o (IF result.failed_files # <<>>
                       THEN <<Box("warning_failed_files")>> ELSE <<>>)
            /\ pc' = "export"
       ELSE /\ screen' = Append(screen, Box("error_failed_to_process"))
            /\ pc' = "main_done"
    /\ UNCHANGED <<uploaded_files, i, all_outputs, processed_files, failed_files,
                   status_text, result, isinVars, nameVars, fileVars>>

\* main, lines 567-589 and 668-671: the branch on the returned tuple
ShowOutcome ==
    /\ pc = "done"
    /\ IF Truthy(result)
       THEN IF result.processed_files > 0
            THEN /\ screen' = screen \o <<Box("success")>>
                        \o (IF result.failed_files # <<>>
                            THEN <<Box("warning_failed_files")>> ELSE <<>>)
                 /\ pc' = "export"
            ELSE /\ screen' = Append(screen, Box("error_no_files_processed"))
                 /\ pc' = "main_done"
       ELSE /\ screen' = Append(screen, Box("error_failed_to_process"))
            /\ pc' = "main_done"
    /\ UNCHANGED <<uploaded_files, i, all_outputs, processed_files, failed_files,
                   status_text, result, isinVars, nameVars, fileVars>>

\* what to_excel can do: return the bytes, or raise because xlsxwriter is
\* not installed, or raise another error
ExportOutcomes == {"download", "error_xlsxwriter", "error_creating_excel"}

\* main, lines 626-667: the export of the combined table
Export ==
    /\ pc = "export"
    /\ \E outcome \in ExportOutcomes : screen' = Append(screen, Box(outcome))
    /\ pc' = "main_done"
    /\ UNCHANGED <<uploaded_files, i, all_outputs, processed_files, failed_files,
                   status_text, result, isinVars, nameVars, fileVars>>

Next == ReportProgress \/ ProcessFile \/ Return \/ ShowOutcome \/ Export

Spec == Init /\ [][Next]_vars

RECURSIVE SumOver(_, _)
\* the sum of f[k] over the set S of indices
SumOver(f, S) ==
    IF S = {} THEN 0
    ELSE LET k == CHOOSE j \in S : TRUE IN f[k] + SumOver(f, S \ {k})

Files == 1..Len(uploaded_files)

DataRows == [k \in Files |-> Len(uploaded_files[k].rows)]

\* the files that contain the four required columns, and those that also
\* have a data row
Satisfying == {k \in Files : PassesColumnCheck(uploaded_files[k])}
Mappable   == {k \in Satisfying : DataRows[k] > 0}

AllReadable == \A k \in Files : uploaded_files[k].readable

\* C1 (as stated): of N readable files, M of them with the four required
\* columns, M are reported processed and N-M failed, and the combined table
\* has the data rows of the M files, whatever their number of rows.
C1_CountsBySchema ==
    (pc = "done" /\ AllReadable) =>
        /\ result.processed_files = Cardinality(Satisfying)
        /\ Len(result.failed_files) = Len(uploaded_files) - Cardinality(Satisfying)
        /\ Len(result.combined_df.rows) = SumOver(DataRows, Satisfying)

\* C1 (amended): of N readable files, M of them with the four required
\* columns and at least one data row, M are reported processed and N-M
\* failed; the combined table has the data rows of the M files, and there is
\* no combined table when M is 0.
C1_CountsBySchemaAndData ==
    (pc = "done" /\ AllReadable) =>
        /\ result.processed_files = Cardinality(Mappable)
        /\ Len(result.failed_files) = Len(uploaded_files) - Cardinality(Mappable)
        /\ Len(result.combined_df.rows) = SumOver(DataRows, Mappable)
        /\ result.combined_df.isNone <=> Mappable = {}

\* a run over a table without rows, a table without a column and a table
\* that maps
C1_Witness ==
    /\ pc = "done" /\ AllReadable
    /\ Len(uploaded_files) = 3
    /\ Satisfying # Files
    /\ Mappable # Satisfying
    /\ result.processed_files = 1
    /\ Len(result.combined_df.rows) = 2

\* the records of the k-th file, in the order of its rows
RecordsOf(k) ==
    [r \in 1..DataRows[k] |->
        output_row(uploaded_files[k].rows[r],
                   extract_portfolio_name(uploaded_files[k].name))]

\* the number of combined rows that come from files before the k-th
Offset(k) == SumOver(DataRows, {j \in Mappable : j < k})

\* C3: in the combined table the rows of each processed file stand together
\* in the order of the file's rows, after the rows of every processed file
\* that precedes it in the input and before those of every later one; failed
\* files take no place.
C3_RowOrder ==
    (pc = "done" /\ ~result.combined_df.isNone) =>
        /\ Len(result.combined_df.rows) = SumOver(DataRows, Mappable)
        /\ \A k \in Mappable :
              SubSeq(result.combined_df.rows, Offset(k) + 1, Offset(k) + DataRows[k])
                  = RecordsOf(k)

\* two processed files with different rows and a failed file between them
C3_Witness ==
    /\ pc = "done"
    /\ Len(uploaded_files) = 3
    /\ Mappable = {1, 3}
    /\ RecordsOf(1) # RecordsOf(3)
    /\ DataRows[2] > 0
    /\ Len(result.combined_df.rows) = DataRows[1] + DataRows[3]

----------------------------------------------------------------------------
(* The loop accounts for every file                                        *)

\* the names of the files among the first n that give no output, in order
RECURSIVE FailedAmong(_)
FailedAmong(n) ==
    IF n = 0 THEN <<>>
    ELSE FailedAmong(n - 1)
            \o (IF n \in Mappable THEN <<>> ELSE <<uploaded_files[n].name>>)

\* the number of files among the first n that give output
ProcessedAmong(n) == Cardinality({k \in Mappable : k <= n})

\* C11: a file that fails does not end the run: after i iterations the first
\* i files, and only they, are accounted for, each either counted in
\* processed_files with its output appended or named in failed_files in
\* input order; the run returns only after the last file, and then
\* processed_files + len(failed_files) is the number of input files.
C11_EveryFileAccounted ==
    /\ i <= Len(uploaded_files)
    /\ processed_files + Len(failed_files) = i
    /\ processed_files = ProcessedAmong(i)
    /\ Len(all_outputs) = processed_files
    /\ failed_files = FailedAmong(i)
    /\ pc = "process" => i < Len(uploaded_files)
    /\ pc \notin {"loop", "process"} =>
          /\ i = Len(uploaded_files)
          /\ result.processed_files + Len(result.failed_files) = Len(uploaded_files)
          /\ result.failed_files = FailedAmong(Len(uploaded_files))

\* a run that met an unreadable file and a table without a column before a
\* table that maps, and went on to the end
C11_Witness ==
    /\ pc = "done"
    /\ Len(uploaded_files) = 3
    /\ ~uploaded_files[1].readable
    /\ uploaded_files[2].readable /\ ~PassesColumnCheck(uploaded_files[2])
    /\ Mappable = {3}
    /\ result.processed_files = 1
    /\ Len(result.failed_files) = 2

----------------------------------------------------------------------------
(* What main shows for the returned tuple                                  *)

FileKinds == {"error_reading", "warning_missing_columns"}

\* the boxes main itself has shown, without the per-file messages
MainBoxes == SelectSeq(screen, LAMBDA b : b[1] \notin FileKinds)

AllNames == [k \in Files |-> uploaded_files[k].name]

\* C12: when no file gives output the call returns no table, a count of 0
\* and every name in failed_files, and main shows the single box "no files
\* were processed" and neither the success box, the failed-files warning nor
\* any export or download; with at least one file that gives output the call
\* returns a table and main gets to the export.
C12_NothingProducedIsOneFailure ==
    pc = "main_done" =>
        IF Mappable = {}
        THEN /\ result.combined_df.isNone
             /\ result.processed_files = 0
             /\ result.failed_files = AllNames
             /\ MainBoxes = <<Box("error_no_files_processed")>>
        ELSE /\ ~result.combined_df.isNone
             /\ Head(MainBoxes) = Box("success")
             /\ MainBoxes[Len(MainBoxes)] \in {Box(o) : o \in ExportOutcomes}
             /\ Box("error_no_files_processed") \notin Range(MainBoxes)
             /\ Box("warning_failed_files") \in Range(MainBoxes) <=> Mappable # Files

\* a run over an unreadable file and a table without a column, each with its
\* own message, that ends in the one box of main
C12_Witness ==
    /\ pc = "main_done"
    /\ Len(uploaded_files) = 2
    /\ Mappable = {}
    /\ Len(screen) = 3
    /\ screen[1][1] = "error_reading"
    /\ screen[2][1] = "warning_missing_columns"
    /\ screen[3] = Box("error_no_files_processed")

C12_WitnessExport ==
    /\ pc = "main_done"
    /\ Mappable # {} /\ Mappable # Files
    /\ Box("download") \in Range(screen)

\* the values of the Portfolio Name column of the combined table
PortfolioNames == {r["Portfolio Name"] : r \in Range(result.combined_df.rows)}

\* C13: two files of a run with different names get different portfolio
\* names, and the combined table has as many distinct Portfolio Name values
\* as there are processed files.
C13_UniquePortfolioNames ==
    pc = "done" =>
        /\ \A j \in Files, k \in Files :
              uploaded_files[j].name # uploaded_files[k].name
                  => extract_portfolio_name(uploaded_files[j].name)
                        # extract_portfolio_name(uploaded_files[k].name)
        /\ (~result.combined_df.isNone
               /\ \A j \in Files, k \in Files :
                     j # k => uploaded_files[j].name # uploaded_files[k].name)
              => Cardinality(PortfolioNames) = result.processed_files

\* the tuples shown so far are those of the first files, in input order
TuplesInOrder ==
    \A k \in 1..Len(status_text) :
        status_text[k] = <<k, Len(uploaded_files), uploaded_files[k].name>>

\* showing a tuple changes nothing but the status text and the position
Observational ==
    [][status_text' # status_text =>
          /\ status_text' = Append(status_text, status_text'[Len(status_text')])
          /\ UNCHANGED <<uploaded_files, i, all_outputs, processed_files,
                         failed_files, result, screen, fileVars, nameVars>>]_vars

\* C14 (as stated): the tuple of a file is shown after the file has been
\* processed and its outcome recorded, once per file and in input order.
C14_TupleAfterFile ==
    /\ TuplesInOrder
    /\ Len(status_text) <= processed_files + Len(failed_files)

\* C14 (amended): the tuple of a file is shown before the file is processed,
\* after the outcome of the file before it has been recorded, once per file
\* and in input order, and showing it changes nothing else.
C14_TupleBeforeFile ==
    /\ [](/\ TuplesInOrder
          /\ Len(status_text) = (IF pc = "process" THEN i + 1 ELSE i)
          /\ processed_files + Len(failed_files) = i)
    /\ Observational

\* the tuple of the second file is on show, one outcome is recorded
C14_Witness ==
    /\ pc = "process"
    /\ Len(status_text) = 2
    /\ status_text[2][1] = 2
    /\ processed_files + Len(failed_files) = 1

====
